---------------------------- MODULE Spec2Model ----------------------------
(***************************************************************************)
(* Model of scripts/vixen_synthesis.py: the OpenROAD synthesis flow driver *)
(* of Vixen Dio Pro.  One process (the script) runs main(): help check,    *)
(* construction of VixenSynthesisFlow (directory creation), prerequisite   *)
(* probing with `which`, generation of the TCL control script, the         *)
(* openroad subprocess with its output redirected to logs/synthesis.log,   *)
(* and the summary.  The filesystem persists from one run of the script to *)
(* the next; everything else is reset when the script is launched.         *)
(*                                                                         *)
(* Texts are modelled as TLA+ strings, character by character: the         *)
(* generated script is the f-string of generate_tcl_script with the four   *)
(* paths substituted, and the timing report check lower-cases the text and *)
(* searches it for "slack".                                                *)
(***************************************************************************)
EXTENDS Naturals, Integers, Sequences, FiniteSets, TLC

\* ------------------------------------------------------------------ bounds

\* Largest number of output chunks the openroad subprocess writes in one run.
MaxOut == 1

\* --------------------------------------------------------- input universes

\* Project roots, Path(__file__).parent.parent: absolute paths (since Python
\* 3.9 the __file__ of the main script is absolute).
Roots == {"/", "/home/results/vixen"}

\* sys.argv, argv[1] being the script itself (Python's sys.argv[0]).
ScriptName == "scripts/vixen_synthesis.py"
Argvs == { <<ScriptName>>, <<ScriptName, "-h">>, <<ScriptName, "--help">>,
           <<ScriptName, "-v", "--help">> }

\* What a path of the project layout can be before the script runs.
DirStates == {"absent", "dir", "file"}
DirNames == {"results", "reports", "logs", "config"}

\* Chunks of combined stdout/stderr of the openroad subprocess.
OutChunks == {"Global placement completed\n", "Error: Verilog file not found\n"}

\* Exit statuses of the openroad subprocess.
ExitCodes == {0, 1, 2}

\* Texts the external tool may leave in reports/timing_report.txt.
ReportTexts == {"slack = 50ps", "SLACK (MET)", "Startpoint: clk", "sl ack", ""}

\* ------------------------------------------------------------------- files

NoFile == [exists |-> FALSE, text |-> ""]
File(t) == [exists |-> TRUE, text |-> t]

\* A timing report: absent, or present with its text; readable is FALSE when
\* open()/read() raise (permissions, undecodable bytes).
NoReport == [exists |-> FALSE, text |-> "", readable |-> TRUE]
ReportStates ==
    {NoReport}
    \cup {[exists |-> TRUE, text |-> t, readable |-> TRUE] : t \in ReportTexts}
    \cup {[exists |-> TRUE, text |-> "slack", readable |-> FALSE]}

\* ---------------------------------------------------------- pure functions

\* pathlib's Path / name.
PathJoin(p, name) == IF p = "/" THEN p \o name ELSE p \o "/" \o name

config_file(r) == PathJoin(PathJoin(r, "config"), "openroad_config.tcl")
results_dir(r) == PathJoin(r, "results")
reports_dir(r) == PathJoin(r, "reports")
logs_dir(r) == PathJoin(r, "logs")
script_path(r) == PathJoin(PathJoin(r, "scripts"), "vixen_synthesis.tcl")

\* str.lower() on ASCII text.
UpperChars == "ABCDEFGHIJKLMNOPQRSTUVWXYZ"
LowerChars == "abcdefghijklmnopqrstuvwxyz"
LowerChar(c) ==
    IF \E i \in 1..Len(UpperChars) : SubSeq(UpperChars, i, i) = c
    THEN LET i == CHOOSE i \in 1..Len(UpperChars) : SubSeq(UpperChars, i, i) = c
         IN SubSeq(LowerChars, i, i)
    ELSE c

RECURSIVE Lower(_)
Lower(s) ==
    IF Len(s) = 0 THEN ""
    ELSE LowerChar(SubSeq(s, 1, 1)) \o Lower(SubSeq(s, 2, Len(s)))

\* Python's `pat in text`.
Contains(text, pat) ==
    \E i \in 1..(Len(text) + 1) :
        /\ i + Len(pat) - 1 <= Len(text)
        /\ SubSeq(text, i, i + Len(pat) - 1) = pat

\* sep.join(items)
RECURSIVE Join(_, _)
Join(items, sep) ==
    IF Len(items) = 0 THEN ""
    ELSE IF Len(items) = 1 THEN items[1]
    ELSE items[1] \o sep \o Join(Tail(items), sep)

\* ------------------------------------------------- the control script text

TclPart1 ==
       "\n"
    \o "# =============================================================================\n"
    \o "# Vixen Dio Pro - OpenROAD Synthesis Script\n"
    \o "# =============================================================================\n"
    \o "\n"
    \o "# Load configuration\n"
    \o "source "

TclPart2 ==
       "\n"
    \o "\n"
    \o "# Set up directories\n"
    \o "set results_dir \""

TclPart3 ==
       "\"\n"
    \o "set reports_dir \""

TclPart4 ==
       "\"\n"
    \o "set logs_dir \""

TclPart5 ==
       "\"\n"
    \o "\n"
    \o "# Read liberty files\n"
    \o "foreach lib_file $LIB_FILES {\n"
    \o "    if {[file exists $lib_file]} {\n"
    \o "        read_liberty $lib_file\n"
    \o "    } else {\n"
    \o "        puts \"Warning: Liberty file $lib_file not found\"\n"
    \o "    }\n"
    \o "}\n"
    \o "\n"
    \o "# Read LEF files  \n"
    \o "foreach lef_file $LEF_FILES {\n"
    \o "    if {[file exists $lef_file]} {\n"
    \o "        read_lef $lef_file\n"
    \o "    } else {\n"
    \o "        puts \"Warning: LEF file $lef_file not found\"\n"
    \o "    }\n"
    \o "}\n"
    \o "\n"
    \o "# Read Verilog files\n"
    \o "foreach verilog_file $VERILOG_FILES {\n"
    \o "    if {[file exists $verilog_file]} {\n"
    \o "        read_verilog $verilog_file\n"
    \o "    } else {\n"
    \o "        puts \"Error: Verilog file $verilog_file not found\"\n"
    \o "        exit 1\n"
    \o "    }\n"
    \o "}\n"
    \o "\n"
    \o "# Link design\n"
    \o "link_design $TOP_MODULE\n"
    \o "\n"
    \o "# Read constraints\n"
    \o "if {[file exists $SDC_FILE]} {\n"
    \o "    read_sdc $SDC_FILE\n"
    \o "} else {\n"
    \o "    puts \"Warning: SDC file $SDC_FILE not found, using default constraints\"\n"
    \o "    create_clock -name clk -period $CLOCK_PERIOD [get_ports clk]\n"
    \o "}\n"
    \o "\n"
    \o "# Initialize floorplan\n"
    \o "initialize_floorplan \\\n"
    \o "    -die_area $DIE_AREA \\\n"
    \o "    -core_area $CORE_AREA \\\n"
    \o "    -site unithd\n"
    \o "\n"
    \o "# Place macros (if any)\n"
    \o "if {$ENABLE_MACRO_PLACEMENT} {\n"
    \o "    # Auto place any memory macros\n"
    \o "    auto_macro_placement\n"
    \o "}\n"
    \o "\n"
    \o "# Power planning\n"
    \o "add_global_connection -net $POWER_NETS -pin_pattern VDD -power\n"
    \o "add_global_connection -net $GROUND_NETS -pin_pattern VSS -ground\n"
    \o "\n"
    \o "# Global placement\n"
    \o "global_placement -density $PLACE_DENSITY\n"
    \o "puts \"Global placement completed\"\n"
    \o "\n"
    \o "# Resize and buffer insertion\n"
    \o "estimate_parasitics -placement\n"
    \o "repair_design\n"
    \o "puts \"Initial repair completed\"\n"
    \o "\n"
    \o "# Detailed placement\n"
    \o "detailed_placement\n"
    \o "puts \"Detailed placement completed\"\n"
    \o "\n"
    \o "# Clock tree synthesis\n"
    \o "clock_tree_synthesis \\\n"
    \o "    -buf_list $CTS_BUF_CELL \\\n"
    \o "    -root_buf $CTS_BUF_CELL\n"
    \o "puts \"Clock tree synthesis completed\"\n"
    \o "\n"
    \o "# Post-CTS optimization\n"
    \o "estimate_parasitics -placement\n"
    \o "repair_design\n"
    \o "puts \"Post-CTS repair completed\"\n"
    \o "\n"
    \o "# Global routing\n"
    \o "set_routing_layers -signal $MIN_ROUTE_LAYER:$MAX_ROUTE_LAYER\n"
    \o "global_route\n"
    \o "puts \"Global routing completed\"\n"
    \o "\n"
    \o "# Detailed routing\n"
    \o "detailed_route\n"
    \o "puts \"Detailed routing completed\"\n"
    \o "\n"
    \o "# Final parasitic extraction and optimization\n"
    \o "estimate_parasitics -placement\n"
    \o "repair_design -max_wire_length 500\n"
    \o "puts \"Final repair completed\"\n"
    \o "\n"
    \o "# Fill insertion\n"
    \o "filler_placement sky130_fd_sc_hd__fill_*\n"
    \o "puts \"Filler placement completed\"\n"
    \o "\n"
    \o "# Generate reports\n"
    \o "report_checks -path_delay min_max -fields input_pin,net,fanout \\\n"
    \o "    > $reports_dir/timing_report.txt\n"
    \o "report_power > $reports_dir/power_report.txt\n"
    \o "report_design_area > $reports_dir/area_report.txt\n"
    \o "\n"
    \o "# Write results\n"
    \o "write_def $results_dir/vixen_dio_pro_final.def\n"
    \o "write_verilog $results_dir/vixen_dio_pro_final.v\n"
    \o "write_sdf $results_dir/vixen_dio_pro_final.sdf\n"
    \o "write_spef $results_dir/vixen_dio_pro_final.spef\n"
    \o "\n"
    \o "# GDS generation (if LEF/GDS libraries are available)\n"
    \o "if {[info exists GDS_LIBS]} {\n"
    \o "    write_gds $results_dir/vixen_dio_pro_final.gds\n"
    \o "    puts \"GDS file generated successfully\"\n"
    \o "}\n"
    \o "\n"
    \o "puts \"Vixen Dio Pro synthesis flow completed successfully!\"\n"
    \o "exit 0\n"

\* The f-string of generate_tcl_script with its four substitutions.
RenderTcl(cfg, res, rep, logs) ==
    TclPart1 \o cfg \o TclPart2 \o res \o TclPart3 \o rep \o TclPart4 \o logs
        \o TclPart5

\* tcl_script of generate_tcl_script for the flow object of project root r.
tcl_script(r) ==
    RenderTcl(config_file(r), results_dir(r), reports_dir(r), logs_dir(r))

\* Mutant of WriteText: the file opened with 'a' instead of 'w'.
AppendText(old, text) == File(old.text \o text)

\* open(path, 'w') followed by f.write(text): the file holds text alone.
WriteText(old, text) == File(text)

\* Mutant of OpenLogForWrite: the log opened with 'a', keeping its content.
OpenLogForAppend(old) == File(old.text)

\* open(log_path, 'w'): the log is created or truncated.
OpenLogForWrite(old) == File("")

\* ------------------------------------------------------- console messages

Rule70 == "======================================================================"
MsgGenerated == "  - Timing report generated"
MsgCheck == "  - Check timing report for detailed analysis"
MsgFallback == "  - Timing report available but could not be parsed"
MsgTimingHeader == "Timing Analysis:"
TimingMessages == {MsgGenerated, MsgCheck, MsgFallback}

\* Mutant of TimingLines: the search for "slack" without lower().
TimingLinesCaseSensitive(report) ==
    IF ~report.exists THEN <<>>
    ELSE <<MsgTimingHeader>> \o
         (IF ~report.readable THEN <<MsgFallback>>
          ELSE IF Contains(report.text, "slack") THEN <<MsgGenerated>>
          ELSE <<MsgCheck>>)

\* The timing block of print_summary.
TimingLines(report) ==
    IF ~report.exists THEN <<>>
    ELSE <<MsgTimingHeader>> \o
         (IF ~report.readable THEN <<MsgFallback>>
          ELSE IF Contains(Lower(report.text), "slack") THEN <<MsgGenerated>>
          ELSE <<MsgCheck>>)

\* print_summary's console lines (the area, power and GDS listings and the
\* fixed processor specification lines are not read by anything and are
\* left out).
SummaryLines(r, report) ==
    <<"\\n" \o Rule70, "VIXEN DIO PRO SYNTHESIS SUMMARY", Rule70>>
        \o TimingLines(report)
        \o <<"\\nOutput files available in:",
             "  - Results: " \o results_dir(r),
             "  - Reports: " \o reports_dir(r),
             "  - Logs: " \o logs_dir(r)>>

\* ------------------------------------------------------------ the program

\* tools of check_prerequisites.
tools == <<"openroad", "yosys", "klayout">>
ToolSet == {tools[i] : i \in 1..Len(tools)}

\* Mutant of MkdirTargets: the logs directory left out of the loop.
MkdirTargetsWithoutLogs == <<"results", "reports">>

\* The directories __init__ creates, in order.
MkdirTargets == <<"results", "reports", "logs">>

\* The loop of __init__: mkdir(exist_ok=True) creates an absent directory,
\* leaves a directory alone and raises FileExistsError on a regular file.
RECURSIVE MkdirLoop(_, _)
MkdirLoop(d, targets) ==
    IF Len(targets) = 0 THEN [dirs |-> d, raised |-> FALSE]
    ELSE IF d[Head(targets)] = "file" THEN [dirs |-> d, raised |-> TRUE]
    ELSE MkdirLoop([d EXCEPT ![Head(targets)] = "dir"], Tail(targets))

\* Mutant of IsHelp: only -h recognised.
IsHelpShortOnly(a) == Len(a) > 1 /\ a[2] = "-h"

\* main's test of the help flag.
IsHelp(a) == Len(a) > 1 /\ a[2] \in {"-h", "--help"}

\* subprocess.run(check=True) in run_command: True on exit status 0,
\* CalledProcessError caught and False otherwise.
CommandOk(rc) == rc = 0

\* Mutant of RecordMissing: only the first missing tool is kept.
RecordFirstMissing(missing, tool, ok) ==
    IF ~ok /\ Len(missing) = 0 THEN Append(missing, tool) ELSE missing

\* The body of check_prerequisites' loop.
RecordMissing(missing, tool, ok) ==
    IF ~ok THEN Append(missing, tool) ELSE missing

\* check_prerequisites' result.
PrerequisitesOk(missing) == Len(missing) = 0

\* Mutant of MainAfterCheck: the result of check_prerequisites is ignored.
MainContinues(ok) == "run_synthesis"

\* main after check_prerequisites: sys.exit(1) or run_synthesis.
MainAfterCheck(ok) == IF ok THEN "run_synthesis" ELSE "exited"

\* Mutant of SummaryWanted: the summary printed whatever the outcome.
SummaryAlways(ok) == TRUE

\* run_synthesis prints the summary on success only.
SummaryWanted(ok) == ok

\* Mutant of ExitStatus: the result of run_synthesis is dropped.
ExitStatusAlwaysZero(ok) == 0

\* main's exit status after run_synthesis: sys.exit(1) on failure.
ExitStatus(ok) == IF ok THEN 0 ELSE 1

VARIABLES
    root,           \* project_root
    argv,           \* sys.argv of the current run
    present,        \* the tools `which` resolves during the current run
    dirs,           \* filesystem: state of results, reports, logs, config
    scriptFile,     \* filesystem: scripts/vixen_synthesis.tcl
    logFile,        \* filesystem: logs/synthesis.log
    timingReport,   \* filesystem: reports/timing_report.txt
    pc,             \* position of the script
    toolIdx,        \* check_prerequisites: index of the tool being probed
    missing_tools,  \* check_prerequisites: missing_tools
    checkResult,    \* "none", or what check_prerequisites returned
    success,        \* run_synthesis: success
    exitCode,       \* exit status of the script, once pc = "exited"
    exc,            \* the exception that ended the run, or "none"
    console,        \* lines printed by the current run
    steps,          \* the steps the current run has begun, in order
    procs,          \* commands the current run has launched, in order
    written,        \* files the current run has opened for writing
    childState,     \* openroad subprocess: "notrun", "running", "exited"
    childOut,       \* openroad subprocess: its combined output so far
    childChunks,    \* openroad subprocess: chunks written so far
    childRc,        \* openroad subprocess: its exit status
    logBefore       \* the log file as run_command found it

fsVars == <<dirs, scriptFile, logFile, timingReport>>
runVars == <<toolIdx, missing_tools, checkResult, success, exitCode, exc,
             console, steps, procs, written, childState, childOut,
             childChunks, childRc, logBefore>>
vars == <<root, argv, present, pc, fsVars, runVars>>

Init ==
    /\ root \in Roots
    /\ argv = <<ScriptName>>
    /\ present = {}
    /\ dirs \in {d \in [DirNames -> DirStates] : d["config"] # "file"}
    /\ scriptFile \in {NoFile, File("# stale script\n")}
    /\ logFile = NoFile
    /\ timingReport = NoReport
    /\ pc = "ready"
    /\ toolIdx = 1
    /\ missing_tools = <<>>
    /\ checkResult = "none"
    /\ success = FALSE
    /\ exitCode = 0
    /\ exc = "none"
    /\ console = <<>>
    /\ steps = <<>>
    /\ procs = <<>>
    /\ written = {}
    /\ childState = "notrun"
    /\ childOut = ""
    /\ childChunks = 0
    /\ childRc = 0
    /\ logBefore = NoFile

\* The script is launched: python3 scripts/vixen_synthesis.py [args].
Launch ==
    /\ pc \in {"ready", "exited"}
    /\ argv' \in Argvs
    /\ present' \in SUBSET ToolSet
    /\ pc' = "main"
    /\ toolIdx' = 1
    /\ missing_tools' = <<>>
    /\ checkResult' = "none"
    /\ success' = FALSE
    /\ exitCode' = 0
    /\ exc' = "none"
    /\ console' = <<>>
    /\ steps' = <<>>
    /\ procs' = <<>>
    /\ written' = {}
    /\ childState' = "notrun"
    /\ childOut' = ""
    /\ childChunks' = 0
    /\ childRc' = 0
    /\ logBefore' = NoFile
    /\ UNCHANGED <<root, fsVars>>

\* main, help flag given: usage text, return.
MainHelp ==
    /\ pc = "main"
    /\ IsHelp(argv)
    /\ console' = console \o
          <<"Vixen Dio Pro Synthesis Flow",
            "Usage: python3 vixen_synthesis.py",
            "\\nThis script runs the complete OpenROAD synthesis flow for",
            "the Vixen Dio Pro processor targeting 130nm process technology.">>
    /\ pc' = "exited"
    /\ exitCode' = 0
    /\ UNCHANGED <<root, argv, present, fsVars, toolIdx, missing_tools,
                   checkResult, success, exc, steps, procs, written,
                   childState, childOut, childChunks, childRc, logBefore>>

\* main, no help flag: flow = VixenSynthesisFlow() creates the directories;
\* an uncaught FileExistsError ends the script with status 1.
Construct ==
    /\ pc = "main"
    /\ ~IsHelp(argv)
    /\ LET r == MkdirLoop(dirs, MkdirTargets) IN
         /\ dirs' = r.dirs
         /\ IF r.raised
            THEN /\ exc' = "FileExistsError"
                 /\ pc' = "exited"
                 /\ exitCode' = 1
            ELSE /\ exc' = exc
                 /\ pc' = "check_prerequisites"
                 /\ exitCode' = exitCode
    /\ UNCHANGED <<root, argv, present, scriptFile, logFile, timingReport,
                   toolIdx, missing_tools, checkResult, success, console,
                   steps, procs, written, childState, childOut, childChunks,
                   childRc, logBefore>>

\* check_prerequisites, one iteration begins: run_command("which <tool>")
\* prints the command and starts the subprocess.
ProbeStart ==
    /\ pc = "check_prerequisites"
    /\ toolIdx <= Len(tools)
    /\ console' = Append(console, "Running: which " \o tools[toolIdx])
    /\ steps' = IF toolIdx = 1 THEN Append(steps, "check") ELSE steps
    /\ \/ /\ procs' = Append(procs, "which " \o tools[toolIdx])
          /\ pc' = "which_running"
          /\ UNCHANGED <<exc, exitCode>>
       \/ \* subprocess.run raises OSError (the shell cannot be started):
          \* not caught, the script ends with a traceback and status 1.
          /\ exc' = "OSError"
          /\ pc' = "exited"
          /\ exitCode' = 1
          /\ UNCHANGED procs
    /\ UNCHANGED <<root, argv, present, fsVars, toolIdx, missing_tools,
                   checkResult, success, written, childState, childOut,
                   childChunks, childRc, logBefore>>

\* The `which` subprocess ends; the loop body records a missing tool.
ProbeEnd ==
    /\ pc = "which_running"
    /\ LET tool == tools[toolIdx]
           rc == IF tool \in present THEN 0 ELSE 1
           ok == CommandOk(rc)
       IN /\ console' = IF ok THEN console
                        ELSE Append(console,
                               "Error: Command failed with return code "
                                   \o ToString(rc))
          /\ missing_tools' = RecordMissing(missing_tools, tool, ok)
    /\ toolIdx' = toolIdx + 1
    /\ pc' = "check_prerequisites"
    /\ UNCHANGED <<root, argv, present, fsVars, checkResult, success,
                   exitCode, exc, steps, procs, written, childState,
                   childOut, childChunks, childRc, logBefore>>

\* check_prerequisites returns; main exits with status 1 when it is False.
CheckReturn ==
    /\ pc = "check_prerequisites"
    /\ toolIdx > Len(tools)
    /\ LET ok == PrerequisitesOk(missing_tools) IN
         /\ console' = IF ok THEN console
                       ELSE console \o
                            <<"Error: Missing required tools: "
                                  \o Join(missing_tools, ", "),
                              "Please install OpenROAD and required dependencies">>
         /\ checkResult' = IF ok THEN "true" ELSE "false"
         /\ pc' = MainAfterCheck(ok)
         /\ exitCode' = IF MainAfterCheck(ok) = "exited" THEN 1 ELSE exitCode
    /\ UNCHANGED <<root, argv, present, fsVars, toolIdx, missing_tools,
                   success, exc, steps, procs, written, childState, childOut,
                   childChunks, childRc, logBefore>>

\* run_synthesis begins: banner, then generate_tcl_script writes the script.
GenerateScript ==
    /\ pc = "run_synthesis"
    /\ console' = console \o
          <<Rule70, "Starting Vixen Dio Pro Synthesis Flow", Rule70>>
    /\ steps' = Append(steps, "generate")
    /\ scriptFile' = WriteText(scriptFile, tcl_script(root))
    /\ written' = written \cup {"script"}
    /\ pc' = "run_command"
    /\ UNCHANGED <<root, argv, present, dirs, logFile, timingReport, toolIdx,
                   missing_tools, checkResult, success, exitCode, exc, procs,
                   childState, childOut, childChunks, childRc, logBefore>>

\* run_command(command, log_file="synthesis.log"): prints the command, opens
\* the log for writing and starts openroad with its output sent to the log.
StartOpenroad ==
    /\ pc = "run_command"
    /\ console' = Append(console,
                     "Running: openroad -no_splash " \o script_path(root))
    /\ steps' = Append(steps, "invoke")
    /\ logBefore' = logFile
    /\ logFile' = OpenLogForWrite(logFile)
    /\ written' = written \cup {"log"}
    /\ \/ /\ procs' = Append(procs, "openroad")
          /\ childState' = "running"
          /\ pc' = "openroad_running"
          /\ UNCHANGED <<exc, exitCode>>
       \/ \* subprocess.run raises OSError: only CalledProcessError is
          \* caught, so it leaves run_command, run_synthesis and main.
          /\ exc' = "OSError"
          /\ pc' = "exited"
          /\ exitCode' = 1
          /\ UNCHANGED <<procs, childState>>
    /\ UNCHANGED <<root, argv, present, dirs, scriptFile, timingReport,
                   toolIdx, missing_tools, checkResult, success, childOut,
                   childChunks, childRc>>

\* openroad writes a chunk of output: stdout and stderr are the log file.
ToolOutput ==
    /\ pc = "openroad_running"
    /\ childChunks < MaxOut
    /\ \E c \in OutChunks :
         /\ childOut' = childOut \o c
         /\ logFile' = File(logFile.text \o c)
    /\ childChunks' = childChunks + 1
    /\ UNCHANGED <<root, argv, present, pc, dirs, scriptFile, timingReport,
                   toolIdx, missing_tools, checkResult, success, exitCode,
                   exc, console, steps, procs, written, childState, childRc,
                   logBefore>>

\* openroad runs the script's report_checks (or not): the timing report is
\* written, replaced or removed by the external tool.
ToolReport ==
    /\ pc = "openroad_running"
    /\ timingReport' \in ReportStates \ {timingReport}
    /\ UNCHANGED <<root, argv, present, pc, dirs, scriptFile, logFile,
                   runVars>>

\* openroad exits; run_command returns whether its status was 0.
ToolExit ==
    /\ pc = "openroad_running"
    /\ \E rc \in ExitCodes :
         /\ childRc' = rc
         /\ success' = CommandOk(rc)
         /\ console' = IF CommandOk(rc) THEN console
                       ELSE Append(console,
                              "Error: Command failed with return code "
                                  \o ToString(rc))
    /\ childState' = "exited"
    /\ pc' = "finish_synthesis"
    /\ UNCHANGED <<root, argv, present, fsVars, toolIdx, missing_tools,
                   checkResult, exitCode, exc, steps, procs, written,
                   childOut, childChunks, logBefore>>

\* run_synthesis ends: the summary on success, the failure lines otherwise
\* (the elapsed time printed in both messages is not modelled).
FinishSynthesis ==
    /\ pc = "finish_synthesis"
    /\ IF SummaryWanted(success)
       THEN /\ console' = Append(console,
                            "\\nSynthesis completed successfully")
                          \o SummaryLines(root, timingReport)
            /\ steps' = Append(steps, "summary")
       ELSE /\ console' = console \o
                  <<"\\nSynthesis failed",
                    "Check log file: " \o logs_dir(root) \o "/synthesis.log">>
            /\ steps' = steps
    /\ pc' = "returned"
    /\ UNCHANGED <<root, argv, present, fsVars, toolIdx, missing_tools,
                   checkResult, success, exitCode, exc, procs, written,
                   childState, childOut, childChunks, childRc, logBefore>>

\* main after run_synthesis: sys.exit(1) unless it succeeded.
MainExit ==
    /\ pc = "returned"
    /\ exitCode' = ExitStatus(success)
    /\ pc' = "exited"
    /\ UNCHANGED <<root, argv, present, fsVars, toolIdx, missing_tools,
                   checkResult, success, exc, console, steps, procs, written,
                   childState, childOut, childChunks, childRc, logBefore>>

Next ==
    \/ Launch
    \/ MainHelp
    \/ Construct
    \/ ProbeStart
    \/ ProbeEnd
    \/ CheckReturn
    \/ GenerateScript
    \/ StartOpenroad
    \/ ToolOutput
    \/ ToolReport
    \/ ToolExit
    \/ FinishSynthesis
    \/ MainExit

Spec == Init /\ [][Next]_vars


\* ------------------------------------------------------------- properties

Range(s) == {s[i] : i \in 1..Len(s)}

\* The current run was given -h or --help as its first argument.
HelpRequested == Len(argv) > 1 /\ (argv[2] = "-h" \/ argv[2] = "--help")

\* Every required tool resolves on the path during the current run.
AllToolsResolve ==
    "openroad" \in present /\ "yosys" \in present /\ "klayout" \in present

\* The openroad subprocess of the current run ran and exited with status 0.
OpenroadExitedZero == childState = "exited" /\ childRc = 0

\* Number of places where pat occurs in text.
Occurrences(text, pat) ==
    Cardinality({i \in 1..Len(text) :
                    /\ i + Len(pat) - 1 <= Len(text)
                    /\ SubSeq(text, i, i + Len(pat) - 1) = pat})

\* text has "slack" in it, in any mix of upper and lower case.
HasSlack(text) ==
    \E i \in 1..Len(text) :
        /\ i + 4 <= Len(text)
        /\ SubSeq(text, i, i) \in {"s", "S"}
        /\ SubSeq(text, i + 1, i + 1) \in {"l", "L"}
        /\ SubSeq(text, i + 2, i + 2) \in {"a", "A"}
        /\ SubSeq(text, i + 3, i + 3) \in {"c", "C"}
        /\ SubSeq(text, i + 4, i + 4) \in {"k", "K"}

\* The timing messages the current run has printed, in order.
TimingPrinted == SelectSeq(console, LAMBDA l : l \in TimingMessages)

\* C1: a full-flow run (no help flag) ends with exit status zero exactly
\* when all three required tools resolve and the openroad subprocess exited
\* with status 0; in every other case the status is nonzero.
C1_ExitZeroIffSuccess ==
    (pc = "exited" /\ ~HelpRequested) =>
        (exitCode = 0 <=> (AllToolsResolve /\ OpenroadExitedZero))

C1_Witness ==
    /\ pc = "exited"
    /\ ~HelpRequested
    /\ exitCode = 0
    /\ AllToolsResolve
    /\ OpenroadExitedZero

\* C2: once check_prerequisites has returned false, the run has written
\* neither the control script nor the log, has not invoked openroad, and
\* has ended with a nonzero exit status.
C2_MissingToolAbortsBeforeWrites ==
    checkResult = "false" =>
        /\ written = {}
        /\ "openroad" \notin Range(procs)
        /\ childState = "notrun"
        /\ pc = "exited"
        /\ exitCode # 0

C2_Witness ==
    /\ checkResult = "false"
    /\ pc = "exited"
    /\ present = {"openroad", "klayout"}
    /\ scriptFile.exists

\* C3: no exception propagates past run_synthesis: a run that entered
\* run_synthesis never ends by an uncaught exception.
C3_NoExceptionPastRunSynthesis ==
    "generate" \in Range(steps) => exc = "none"

\* C4 as stated: whenever a subprocess of the orchestrator is running, all
\* four project directories (results, reports, logs, config) exist.
C4_AllFourDirectoriesExist ==
    pc \in {"which_running", "openroad_running"} =>
        \A d \in {"results", "reports", "logs", "config"} : dirs[d] = "dir"

\* C4 amended: whenever a subprocess of the orchestrator is running, the
\* three directories results, reports and logs exist (config is not created
\* by the orchestrator).
C4_OutputDirectoriesExist ==
    pc \in {"which_running", "openroad_running"} =>
        \A d \in {"results", "reports", "logs"} : dirs[d] = "dir"

C4_Witness ==
    /\ pc = "openroad_running"
    /\ dirs["config"] = "absent"
    /\ \A d \in {"results", "reports", "logs"} : dirs[d] = "dir"

\* C5: check_prerequisites returns true iff every required tool resolves;
\* when it returns false, the missing list it reports names exactly the
\* required tools that do not resolve, each once, in the order probed.
C5_PrerequisitesExact ==
    checkResult # "none" =>
        LET expected == SelectSeq(<<"openroad", "yosys", "klayout">>,
                                  LAMBDA t : t \notin present)
        IN /\ checkResult = "true" <=> AllToolsResolve
           /\ missing_tools = expected
           /\ checkResult = "false" =>
                /\ Len(console) >= 2
                /\ console[Len(console) - 1] =
                       "Error: Missing required tools: "
                           \o Join(expected, ", ")

C5_Witness ==
    /\ checkResult = "false"
    /\ present = {"yosys"}
    /\ missing_tools = <<"openroad", "klayout">>
    /\ "Error: Missing required tools: openroad, klayout" \in Range(console)

\* C6: when run_synthesis has returned, its result is true iff openroad
\* exited with status 0, and the log file holds exactly the output of this
\* run's openroad invocation, whatever the log held before.
C6_LogIsLastInvocationOutput ==
    (pc \in {"returned", "exited"} /\ childState = "exited") =>
        /\ success <=> (childRc = 0)
        /\ "log" \in written
        /\ logFile = [exists |-> TRUE, text |-> childOut]

C6_Witness ==
    /\ pc = "returned"
    /\ ~success
    /\ childRc # 0
    /\ logBefore.exists
    /\ logBefore.text # ""
    /\ logFile.text # logBefore.text
    /\ logFile.text = childOut

\* C7 as stated: the summary prints exactly one timing message: the
\* fallback message when the timing report is absent, and when it is
\* present the "generated" message, except that a text containing "slack"
\* (in any case) gives the alternate message.
C7_TimingMessageAsStated ==
    "summary" \in Range(steps) =>
        /\ Len(TimingPrinted) = 1
        /\ ~timingReport.exists => TimingPrinted = <<MsgFallback>>
        /\ (timingReport.exists /\ ~HasSlack(timingReport.text)) =>
               TimingPrinted = <<MsgGenerated>>
        /\ (timingReport.exists /\ HasSlack(timingReport.text)) =>
               TimingPrinted = <<MsgCheck>>

\* C7 amended: the summary prints no timing message when the timing report
\* is absent; when it is present it prints exactly one: the fallback
\* message if reading it raises, else the "generated" message if the text
\* contains "slack" in any case, else the "check timing report" message.
C7_TimingMessage ==
    "summary" \in Range(steps) =>
        TimingPrinted =
            IF ~timingReport.exists THEN <<>>
            ELSE IF ~timingReport.readable THEN <<MsgFallback>>
            ELSE IF HasSlack(timingReport.text) THEN <<MsgGenerated>>
            ELSE <<MsgCheck>>

C7_Witness ==
    /\ "summary" \in Range(steps)
    /\ timingReport.exists
    /\ timingReport.text = "SLACK (MET)"
    /\ TimingPrinted = <<MsgGenerated>>

\* C8: no step of a run given -h or --help changes the filesystem, launches
\* a subprocess or opens a file for writing, and such a run exits zero.
C8_HelpDoesNothing ==
    [][HelpRequested' =>
          /\ fsVars' = fsVars
          /\ procs' = <<>>
          /\ written' = {}
          /\ pc' \in {"main", "exited"}
          /\ pc' = "exited" => (exitCode' = 0 /\ exc' = "none")]_vars

C8_Witness ==
    /\ HelpRequested
    /\ pc = "exited"
    /\ exitCode = 0
    /\ "Usage: python3 vixen_synthesis.py" \in Range(console)
    /\ dirs["results"] = "absent"
    /\ ~scriptFile.exists

\* C9: the steps of a run are a prefix of check, generate, invoke, summary
\* (each at most once, in that order); openroad is invoked only once the
\* script is written; the summary is printed only after openroad exited 0;
\* a failed check or a failed openroad run is the last step of its run.
C9_StrictlyLinear ==
    /\ \E n \in 0..4 :
          steps = SubSeq(<<"check", "generate", "invoke", "summary">>, 1, n)
    /\ Cardinality({i \in 1..Len(procs) : procs[i] = "openroad"}) <= 1
    /\ "openroad" \in Range(procs) =>
          ("script" \in written /\ "invoke" \in Range(steps))
    /\ "summary" \in Range(steps) => OpenroadExitedZero
    /\ checkResult = "false" => (steps = <<"check">> /\ pc = "exited")
    /\ (childState = "exited" /\ childRc # 0) =>
          steps = <<"check", "generate", "invoke">>

C9_Witness ==
    /\ pc = "exited"
    /\ steps = <<"check", "generate", "invoke", "summary">>
    /\ procs = <<"which openroad", "which yosys", "which klayout", "openroad">>

\* C10: whenever the current run has generated the control script, the
\* file holds exactly the text determined by the project paths, whatever it
\* held before and however often it was generated; right after generation
\* that text contains the configuration-file path and the results, reports
\* and logs directory paths exactly once each.
C10_ScriptDeterministic ==
    "script" \in written =>
        /\ scriptFile = [exists |-> TRUE, text |-> tcl_script(root)]
        /\ pc = "run_command" =>
             /\ Occurrences(scriptFile.text, config_file(root)) = 1
             /\ Occurrences(scriptFile.text, results_dir(root)) = 1
             /\ Occurrences(scriptFile.text, reports_dir(root)) = 1
             /\ Occurrences(scriptFile.text, logs_dir(root)) = 1

\* The script has just been generated in a run that follows one which got
\* as far as opening the log, hence generated the script before.
C10_Witness ==
    /\ pc = "run_command"
    /\ "script" \in written
    /\ logFile.exists
    /\ scriptFile.text = tcl_script(root)
    /\ Occurrences(scriptFile.text, results_dir(root)) = 1

=============================================================================
